---- MODULE Spec2Model ----
(***************************************************************************)
(* Resilient delimited-text ingestion (read_csv.py, read_csv2.py,          *)
(* read_csv3.py): byte decoding, delimiter inference, the tokenization     *)
(* fallback chain and width normalization.                                 *)
(*                                                                         *)
(* Text is a sequence of characters; a field is such a sequence, a row a   *)
(* sequence of fields.  A character is the one-character string of it      *)
(* ("a", ",", "\t", "\n", "\r", "\f") or, where TLA+ has no way to write    *)
(* it, the string "U+XXXX" of its code point ("U+00A0", "U+201C").  The     *)
(* decoder's text is a sequence of code points (integers).                 *)
(***************************************************************************)
EXTENDS Integers, Sequences, FiniteSets, TLC

VARIABLES
    \* ---- width normalizer (load_csv_force_width[_resilient]) ----
    rows,           \* list(rdr): parsed rows, header first
    expected_cols,
    merge_into,
    header,
    body,
    target_idx,     \* 0-based, as in the source
    fixed_rows,
    long_rows,
    short_rows,
    idx,            \* position of the for-loop in body (1-based)
    npc,            \* control point of the normalizer
    df,             \* the returned DataFrame: [columns, data]
    pass,           \* 1: first call, 2: the call on the first call's output
    prev_df,        \* the DataFrame returned by the first call
    \* ---- delimiter inference (_detect_delim_from_text) ----
    text_lines,     \* text.splitlines()
    delim,          \* the delimiter returned
    dpc,
    \* ---- byte decoder (_decode_text_safely) ----
    raw,            \* the bytes of the file
    native_order,   \* byte order of the platform, used by utf-16 without a BOM
    text,           \* the returned text, a sequence of code points
    path_taken,     \* which return statement produced text
    bpc,
    \* ---- fallback chain (robust_read_csv) ----
    file_lines,     \* the lines of the file, as readline cuts it
    fdelim,         \* delim
    mode_cols,
    first_err,
    second_err,
    third_err,
    fixed,          \* normalize_text(raw), a text
    attempts,       \* the parse attempts made so far, in order
    result,         \* the DataFrame returned
    error,          \* the RuntimeError raised
    fpc

nvars == <<rows, expected_cols, merge_into, header, body, target_idx,
           fixed_rows, long_rows, short_rows, idx, npc, df, pass, prev_df>>

dvars == <<text_lines, delim, dpc>>

bvars == <<raw, native_order, text, path_taken, bpc>>

fvars == <<file_lines, fdelim, mode_cols, first_err, second_err, third_err,
           fixed, attempts, result, error, fpc>>

vars == <<nvars, dvars, bvars, fvars>>

(***************************************************************************)
(* Bounds of the model                                                     *)
(***************************************************************************)
MaxRows == 2        \* body rows per table
MaxRowLen == 4      \* fields per row (and names per header)
MaxCells == 4       \* fields per body in total
MaxCols == 3        \* expected_cols ranges over 1..MaxCols

(***************************************************************************)
(* Generic helpers on sequences                                            *)
(***************************************************************************)
None == "None"

RECURSIVE SumSeq(_)
SumSeq(s) == IF s = <<>> THEN 0 ELSE Head(s) + SumSeq(Tail(s))

\* Python s[:n] for n >= 0
Take(s, n) == SubSeq(s, 1, IF n < Len(s) THEN n ELSE Len(s))

\* Python s[n:] for n >= 0
Drop(s, n) == SubSeq(s, n + 1, Len(s))

\* ','.join(fields)
RECURSIVE JoinComma(_)
JoinComma(fields) ==
    IF fields = <<>> THEN <<>>
    ELSE IF Len(fields) = 1 THEN fields[1]
    ELSE fields[1] \o <<",">> \o JoinComma(Tail(fields))

\* s.rstrip(',')
RECURSIVE RStripComma(_)
RStripComma(s) ==
    IF s # <<>> /\ s[Len(s)] = "," THEN RStripComma(SubSeq(s, 1, Len(s) - 1))
    ELSE s

\* header.index(name), 0-based; name is in header
IndexOf(h, name) == (CHOOSE i \in 1..Len(h) :
                        h[i] = name /\ \A j \in 1..(i - 1) : h[j] # name) - 1

InSeq(x, s) == \E i \in 1..Len(s) : s[i] = x

(***************************************************************************)
(* Values of the variables of the components a specification leaves idle   *)
(***************************************************************************)
NormIdle ==
    /\ rows = <<>>
    /\ expected_cols = 1
    /\ merge_into = None
    /\ header = <<>>
    /\ body = <<>>
    /\ target_idx = 0
    /\ fixed_rows = <<>>
    /\ long_rows = 0
    /\ short_rows = 0
    /\ idx = 1
    /\ npc = "idle"
    /\ df = [columns |-> <<>>, data |-> <<>>]
    /\ pass = 1
    /\ prev_df = [columns |-> <<>>, data |-> <<>>]

DelimIdle ==
    /\ text_lines = <<>>
    /\ delim = None
    /\ dpc = "idle"

DecodeIdle ==
    /\ raw = <<>>
    /\ native_order = "little"
    /\ text = <<>>
    /\ path_taken = None
    /\ bpc = "idle"

FallbackIdle ==
    /\ file_lines = <<>>
    /\ fdelim = None
    /\ mode_cols = <<>>
    /\ first_err = None
    /\ second_err = None
    /\ third_err = None
    /\ fixed = <<>>
    /\ attempts = <<>>
    /\ result = None
    /\ error = None
    /\ fpc = "idle"

(***************************************************************************)
(* Inputs of the normalizer                                                *)
(***************************************************************************)
Letters == <<"a", "b", "c", "d", "e", "f", "g">>
ColumnNames == <<"x", "y", "z", "w", "v", "u", "t">>
FieldKinds == {"empty", "plain", "comma"}
MergeNames == {None, "x", "y", "q"}

\* the field of the given kind at position j of a row
FieldAt(kind, j) ==
    CASE kind = "empty" -> <<>>
      [] kind = "plain" -> <<Letters[j]>>
      [] kind = "comma" -> <<",">>

Shapes == UNION {{s \in [1..k -> 0..MaxRowLen] : SumSeq(s) <= MaxCells} : k \in 0..MaxRows}

BuildBody(shape, kinds) ==
    [i \in 1..Len(shape) |->
        [j \in 1..shape[i] |-> FieldAt(kinds[SumSeq(SubSeq(shape, 1, i - 1)) + j], j)]]

(***************************************************************************)
(* Width normalization, read_csv3.py:83-116 (read_csv2.py:29-74 is the     *)
(* same code)                                                              *)
(***************************************************************************)
PlaceholderName(i) == "__placeholder_" \o ToString(i)

\* variant: a long header is not truncated
NormalizeHeader_NoTrunc(h, n) ==
    IF Len(h) < n THEN h \o [i \in 1..(n - Len(h)) |-> PlaceholderName(i - 1)]
    ELSE h

\* lines 90-93: pad a short header with placeholders, truncate a long one
NormalizeHeader(h, n) ==
    IF Len(h) < n THEN h \o [i \in 1..(n - Len(h)) |-> PlaceholderName(i - 1)]
    ELSE IF Len(h) > n THEN Take(h, n)
    ELSE h

\* line 96
MergeTarget(h, m, n) ==
    IF m # None /\ m # "" /\ InSeq(m, h) THEN IndexOf(h, m) ELSE n - 1

\* variant: a row of exactly n fields takes the overflow branch
RowClass_GE(r, n) ==
    IF Len(r) >= n THEN "long" ELSE "short"

\* lines 100/102/111: which branch of the loop a row takes
RowClass(r, n) ==
    IF Len(r) = n THEN "exact"
    ELSE IF Len(r) > n THEN "long"
    ELSE "short"

\* lines 103-108
MergeLong(r, n, t) ==
    LET overflow == Drop(r, n - 1)
        kept == Take(r, n)
        at == IF t < n - 1 THEN t + 1 ELSE Len(kept)
    IN  [kept EXCEPT ![at] = RStripComma(kept[at] \o <<",">> \o JoinComma(overflow))]

\* variant: the padding is put in front of the fields
PadShort_Left(r, n) == [i \in 1..(n - Len(r)) |-> <<>>] \o r

\* line 112
PadShort(r, n) == r \o [i \in 1..(n - Len(r)) |-> <<>>]

NormInit ==
    /\ expected_cols \in 1..MaxCols
    /\ merge_into \in MergeNames
    /\ \/ rows = <<>>
       \/ \E hl \in 0..MaxRowLen, shape \in Shapes :
            \E kinds \in [1..SumSeq(shape) -> FieldKinds] :
                rows = <<[j \in 1..hl |-> ColumnNames[j]]>> \o BuildBody(shape, kinds)
    /\ header = <<>>
    /\ body = <<>>
    /\ target_idx = 0
    /\ fixed_rows = <<>>
    /\ long_rows = 0
    /\ short_rows = 0
    /\ idx = 1
    /\ npc = "start"
    /\ df = [columns |-> <<>>, data |-> <<>>]
    /\ pass = 1
    /\ prev_df = [columns |-> <<>>, data |-> <<>>]
    /\ DelimIdle
    /\ DecodeIdle
    /\ FallbackIdle

\* lines 83-84: no rows at all, an empty DataFrame is returned
ReturnEmpty ==
    /\ npc = "start"
    /\ rows = <<>>
    /\ npc' = "empty"
    /\ df' = [columns |-> <<>>, data |-> <<>>]
    /\ UNCHANGED <<rows, expected_cols, merge_into, header, body, target_idx,
                   fixed_rows, long_rows, short_rows, idx, pass, prev_df, dvars, bvars, fvars>>

\* lines 86-98
PrepareHeader ==
    /\ npc = "start"
    /\ rows # <<>>
    /\ header' = NormalizeHeader(rows[1], expected_cols)
    /\ body' = Tail(rows)
    /\ target_idx' = MergeTarget(header', merge_into, expected_cols)
    /\ fixed_rows' = <<>>
    /\ long_rows' = 0
    /\ short_rows' = 0
    /\ idx' = 1
    /\ npc' = "loop"
    /\ UNCHANGED <<rows, expected_cols, merge_into, df, pass, prev_df, dvars, bvars, fvars>>

\* lines 100-101
KeepRow ==
    /\ npc = "loop"
    /\ idx <= Len(body)
    /\ RowClass(body[idx], expected_cols) = "exact"
    /\ fixed_rows' = Append(fixed_rows, body[idx])
    /\ idx' = idx + 1
    /\ UNCHANGED <<rows, expected_cols, merge_into, header, body, target_idx,
                   long_rows, short_rows, npc, df, pass, prev_df, dvars, bvars, fvars>>

\* lines 102-110
MergeRow ==
    /\ npc = "loop"
    /\ idx <= Len(body)
    /\ RowClass(body[idx], expected_cols) = "long"
    /\ fixed_rows' = Append(fixed_rows, MergeLong(body[idx], expected_cols, target_idx))
    /\ long_rows' = long_rows + 1
    /\ idx' = idx + 1
    /\ UNCHANGED <<rows, expected_cols, merge_into, header, body, target_idx,
                   short_rows, npc, df, pass, prev_df, dvars, bvars, fvars>>

\* variant: a short row is skipped instead of padded
PadRow_Skip ==
    /\ npc = "loop"
    /\ idx <= Len(body)
    /\ RowClass(body[idx], expected_cols) = "short"
    /\ short_rows' = short_rows + 1
    /\ idx' = idx + 1
    /\ UNCHANGED <<rows, expected_cols, merge_into, header, body, target_idx,
                   fixed_rows, long_rows, npc, df, pass, prev_df, dvars, bvars, fvars>>

\* lines 111-114
PadRow ==
    /\ npc = "loop"
    /\ idx <= Len(body)
    /\ RowClass(body[idx], expected_cols) = "short"
    /\ fixed_rows' = Append(fixed_rows, PadShort(body[idx], expected_cols))
    /\ short_rows' = short_rows + 1
    /\ idx' = idx + 1
    /\ UNCHANGED <<rows, expected_cols, merge_into, header, body, target_idx,
                   long_rows, npc, df, pass, prev_df, dvars, bvars, fvars>>

\* line 116 and the return
BuildFrame ==
    /\ npc = "loop"
    /\ idx > Len(body)
    /\ df' = [columns |-> header, data |-> fixed_rows]
    /\ npc' = "done"
    /\ UNCHANGED <<rows, expected_cols, merge_into, header, body, target_idx,
                   fixed_rows, long_rows, short_rows, idx, pass, prev_df, dvars, bvars, fvars>>

\* the returned table is normalized again with the same arguments
Renormalize ==
    /\ npc = "done"
    /\ pass = 1
    /\ rows' = <<df.columns>> \o df.data
    /\ prev_df' = df
    /\ pass' = 2
    /\ npc' = "start"
    /\ UNCHANGED <<expected_cols, merge_into, header, body, target_idx,
                   fixed_rows, long_rows, short_rows, idx, df, dvars, bvars, fvars>>

NormNext ==
    \/ ReturnEmpty
    \/ PrepareHeader
    \/ KeepRow
    \/ MergeRow
    \/ PadRow
    \/ BuildFrame
    \/ Renormalize

Spec == NormInit /\ [][NormNext]_vars

(***************************************************************************)
(* Delimiter inference, read_csv3.py:39-51 and read_csv.py:5-18            *)
(***************************************************************************)
DelimMaxLines == 3      \* lines per sampled text
DelimMaxChars == 4      \* characters per sampled text, over all its lines

Candidates == <<",", ";", "|", "\t">>
\* the characters str.strip() removes (str.isspace): U+0009-U+000D,
\* U+001C-U+0020, U+0085, U+00A0, U+1680, U+2000-U+200A, U+2028, U+2029,
\* U+202F, U+205F, U+3000
Whitespace ==
    {"\t", "\n", "U+000B", "\f", "\r", "U+001C", "U+001D", "U+001E", "U+001F", " ",
     "U+0085", "U+00A0", "U+1680",
     "U+2000", "U+2001", "U+2002", "U+2003", "U+2004", "U+2005", "U+2006",
     "U+2007", "U+2008", "U+2009", "U+200A",
     "U+2028", "U+2029", "U+202F", "U+205F", "U+3000"}
DelimChars == {",", ";", "\t", "U+00A0", "a"}
SampleLimit == 200

\* ln.strip() is empty
IsBlank(ln) == \A i \in 1..Len(ln) : ln[i] \in Whitespace

NonBlank(ln) == ~IsBlank(ln)

\* ln.count(d)
CountChar(ln, d) == Cardinality({i \in 1..Len(ln) : ln[i] = d})

\* [ln.count(d) for ln in lines]
Counts(lines, d) == [i \in 1..Len(lines) |-> CountChar(lines[i], d)]

Frequency(counts, v) == Cardinality({i \in 1..Len(counts) : counts[i] = v})

\* Counter(counts).most_common(1)[0][0]: the most frequent value, the one
\* met first when several are equally frequent
Mode(counts) ==
    counts[CHOOSE i \in 1..Len(counts) :
              /\ \A j \in 1..Len(counts) :
                    Frequency(counts, counts[j]) <= Frequency(counts, counts[i])
              /\ \A j \in 1..(i - 1) :
                    Frequency(counts, counts[j]) < Frequency(counts, counts[i])]

RECURSIVE SumSqDev(_, _)
SumSqDev(counts, m) ==
    IF counts = <<>> THEN 0
    ELSE (Head(counts) - m) * (Head(counts) - m) + SumSqDev(Tail(counts), m)

\* the binary digits of n, the most significant first
RECURSIVE Bin(_)
Bin(n) == IF n = 0 THEN <<>> ELSE Bin(n \div 2) \o <<n % 2>>

\* the first n binary digits of r / den after the point, for r < den
RECURSIVE FracBits(_, _, _)
FracBits(r, den, n) ==
    IF n = 0 THEN <<>>
    ELSE <<(2 * r) \div den>> \o FracBits((2 * r) % den, den, n - 1)

\* what is left of r / den after these n digits (0: the digits are all of it)
RECURSIVE FracRem(_, _, _)
FracRem(r, den, n) == IF n = 0 THEN r ELSE FracRem((2 * r) % den, den, n - 1)

\* the zeros between the point and the first 1 of r / den, for 0 < r < den
RECURSIVE LeadZeros(_, _)
LeadZeros(r, den) == IF 2 * r >= den THEN 0 ELSE 1 + LeadZeros(2 * r, den)

\* the digits of a float: those of an IEEE 754 double
MantissaBits == 53

FloatZero == [exp |-> 0, bits |-> <<>>]

\* a significand plus one unit in its last place
RoundUp(exp, bits) ==
    IF \A i \in 1..Len(bits) : bits[i] = 1
    THEN [exp |-> exp + 1, bits |-> [i \in 1..Len(bits) |-> IF i = 1 THEN 1 ELSE 0]]
    ELSE LET p == CHOOSE i \in 1..Len(bits) :
                      bits[i] = 0 /\ \A j \in (i + 1)..Len(bits) : bits[j] = 1
         IN  [exp |-> exp,
              bits |-> [i \in 1..Len(bits) |->
                          IF i < p THEN bits[i] ELSE IF i = p THEN 1 ELSE 0]]

\* num / den of two ints, num >= 0 and den > 0: the float nearest to the
\* quotient, the one with an even last digit when two are equally near.  A
\* float is 0 or 2^exp * 1.b2..b53 with bits = <<1, b2, .., b53>>.
TrueDiv(num, den) ==
    IF num = 0 THEN FloatZero
    ELSE LET whole == Bin(num \div den)
             r == num % den
             z == IF whole = <<>> THEN LeadZeros(r, den) ELSE 0
             n == IF Len(whole) > MantissaBits THEN 0
                  ELSE IF whole # <<>> THEN MantissaBits + 1 - Len(whole)
                  ELSE z + MantissaBits + 1
             digits == whole \o FracBits(r, den, n)
             lead == IF whole # <<>> THEN 1 ELSE z + 1
             exp == IF whole # <<>> THEN Len(whole) - 1 ELSE -(z + 1)
             bits == SubSeq(digits, lead, lead + MantissaBits - 1)
             half == digits[lead + MantissaBits]
             rest == \/ \E i \in (lead + MantissaBits + 1)..Len(digits) : digits[i] = 1
                     \/ FracRem(r, den, n) # 0
         IN  IF half = 1 /\ (rest \/ bits[MantissaBits] = 1)
             THEN RoundUp(exp, bits)
             ELSE [exp |-> exp, bits |-> bits]

\* a < b for two floats that are not negative
FloatLess(a, b) ==
    IF b = FloatZero THEN FALSE
    ELSE IF a = FloatZero THEN TRUE
    ELSE \/ a.exp < b.exp
         \/ /\ a.exp = b.exp
            /\ \E i \in 1..MantissaBits :
                  a.bits[i] < b.bits[i] /\ \A j \in 1..(i - 1) : a.bits[j] = b.bits[j]

\* scores[d] = (mode, -var); var is a float
Score(lines, d) ==
    LET counts == Counts(lines, d)
        m == Mode(counts)
    IN  [mode |-> m,
         var |-> TrueDiv(SumSqDev(counts, m),
                         IF Len(counts) > 1 THEN Len(counts) ELSE 1)]

\* variant: the variance is left out of the key
ScoreGreater_ModeOnly(a, b) == a.mode > b.mode

\* (a.mode, -a.var) > (b.mode, -b.var)
ScoreGreater(a, b) ==
    \/ a.mode > b.mode
    \/ a.mode = b.mode /\ FloatLess(a.var, b.var)

\* the front of sorted(..., reverse=True) over the candidates from i on, given
\* the best candidate before i: the sort is stable, so a later candidate comes
\* first only with a strictly greater key
RECURSIVE BestFrom(_, _, _, _, _)
BestFrom(lines, cands, i, best, best_score) ==
    IF i > Len(cands) THEN best
    ELSE LET sc == Score(lines, cands[i])
         IN  IF ScoreGreater(sc, best_score)
             THEN BestFrom(lines, cands, i + 1, cands[i], sc)
             ELSE BestFrom(lines, cands, i + 1, best, best_score)

\* sorted(scores.items(), key=lambda kv: (kv[1][0], kv[1][1]), reverse=True)[0][0]
BestCandidate(lines, cands) ==
    BestFrom(lines, cands, 2, cands[1], Score(lines, cands[1]))

\* read_csv3.py:39-51
detect_delim_from_text(lines) ==
    LET sample == SelectSeq(Take(lines, SampleLimit), NonBlank)
    IN  IF sample = <<>> THEN "," ELSE BestCandidate(sample, Candidates)

\* read_csv.py:5-18
detect_delimiter(sample_lines) ==
    LET sample == SelectSeq(sample_lines, NonBlank)
    IN  IF sample = <<>> THEN None ELSE BestCandidate(sample, Candidates)

\* the lengths of the lines of a text
DelimShapes ==
    UNION {{s \in [1..k -> 0..DelimMaxChars] : SumSeq(s) <= DelimMaxChars} : k \in 0..DelimMaxLines}

\* the lines of the given lengths cut from the characters
BuildLines(shape, chars) ==
    [i \in 1..Len(shape) |->
        [j \in 1..shape[i] |-> chars[SumSeq(SubSeq(shape, 1, i - 1)) + j]]]

DelimInit ==
    /\ \E shape \in DelimShapes :
          \E chars \in [1..SumSeq(shape) -> DelimChars] :
              text_lines = BuildLines(shape, chars)
    /\ delim = None
    /\ dpc = "start"
    /\ NormIdle
    /\ DecodeIdle
    /\ FallbackIdle

\* read_csv3.py:70
DetectDelim ==
    /\ dpc = "start"
    /\ delim' = detect_delim_from_text(text_lines)
    /\ dpc' = "done"
    /\ UNCHANGED <<text_lines, nvars, bvars, fvars>>

DelimNext == DetectDelim

SpecDelim == DelimInit /\ [][DelimNext]_vars

(***************************************************************************)
(* Byte decoder, read_csv3.py:5-37                                         *)
(*                                                                         *)
(* A file is an optional byte order mark, a short prefix and a two-byte     *)
(* unit repeated RepeatCount times or not at all, so that files on both    *)
(* sides of the 200-byte threshold of the NUL heuristic occur.             *)
(***************************************************************************)
MaxPrefixLen == 2       \* bytes before the repeated unit
RepeatCount == 100      \* repetitions of the unit in a long file

Bytes == {0, 65, 130, 216, 226, 255}
ByteOrderMarks == {<<>>, <<255, 254>>, <<254, 255>>}
HeuristicSample == 200
Replacement == 65533    \* U+FFFD

StartsWith(s, p) == Len(s) >= Len(p) /\ SubSeq(s, 1, Len(p)) = p

\* read_csv3.py:5-13; zero_ratio > 0.1 over the first 200 bytes
looks_utf16(r) ==
    IF StartsWith(r, <<255, 254>>) \/ StartsWith(r, <<254, 255>>) THEN TRUE
    ELSE IF Len(r) >= HeuristicSample
         THEN LET sample == SubSeq(r, 1, HeuristicSample)
                  zeros == Cardinality({i \in 1..Len(sample) : sample[i] = 0})
              IN  zeros * 10 > Len(sample)
         ELSE FALSE

\* text.replace('\x00', '')
IsNotNul(c) == c # 0

\* variant: the NULs are left in
StripNul_Keep(t) == t

StripNul(t) == SelectSeq(t, IsNotNul)

IsHighSurrogate(u) == u >= 55296 /\ u <= 56319

IsLowSurrogate(u) == u >= 56320 /\ u <= 57343

\* the 16-bit units of an even number of bytes in the given byte order
Utf16Units(b, order) ==
    [i \in 1..(Len(b) \div 2) |->
        IF order = "little" THEN b[2 * i - 1] + 256 * b[2 * i]
        ELSE b[2 * i] + 256 * b[2 * i - 1]]

\* code points of the units, unit by unit: -2 for a low surrogate consumed
\* by the high surrogate before it, -1 for an illegal surrogate
Utf16Marked(u) ==
    [i \in 1..Len(u) |->
        IF IsHighSurrogate(u[i])
        THEN IF i < Len(u) /\ IsLowSurrogate(u[i + 1])
             THEN 65536 + (u[i] - 55296) * 1024 + (u[i + 1] - 56320)
             ELSE -1
        ELSE IF IsLowSurrogate(u[i])
             THEN IF i > 1 /\ IsHighSurrogate(u[i - 1]) THEN -2 ELSE -1
        ELSE u[i]]

IsNotConsumed(c) == c # -2

Utf16Points(u) == SelectSeq(Utf16Marked(u), IsNotConsumed)

\* raw.decode('utf-16'): a BOM selects the byte order and is consumed, else
\* the platform's order is used; odd length or an illegal surrogate raises
Utf16Decode(r, native) ==
    LET order == IF StartsWith(r, <<255, 254>>) THEN "little"
                 ELSE IF StartsWith(r, <<254, 255>>) THEN "big"
                 ELSE native
        data == IF StartsWith(r, <<255, 254>>) \/ StartsWith(r, <<254, 255>>)
                THEN Drop(r, 2) ELSE r
        points == Utf16Points(Utf16Units(data, order))
    IN  IF Len(data) % 2 = 1 \/ InSeq(-1, points)
        THEN [ok |-> FALSE, text |-> <<>>]
        ELSE [ok |-> TRUE, text |-> points]

IsContinuation(b) == b >= 128 /\ b <= 191

\* c may follow the lead byte as the second byte of its sequence
IsSecondByte(lead, c) ==
    IF lead = 224 THEN c >= 160 /\ c <= 191
    ELSE IF lead = 237 THEN c >= 128 /\ c <= 159
    ELSE IF lead = 240 THEN c >= 144 /\ c <= 191
    ELSE IF lead = 244 THEN c >= 128 /\ c <= 143
    ELSE IsContinuation(c)

\* the bytes the sequence has after its lead byte: 0 for a byte that is no
\* lead (ASCII, a continuation byte, C0, C1, F5-FF)
TrailCount(lead) ==
    IF lead >= 194 /\ lead <= 223 THEN 1
    ELSE IF lead >= 224 /\ lead <= 239 THEN 2
    ELSE IF lead >= 240 /\ lead <= 244 THEN 3
    ELSE 0

\* byte k after the lead at p is there and is valid in that place
TrailOk(b, p, k) ==
    /\ p + k <= Len(b)
    /\ IF k = 1 THEN IsSecondByte(b[p], b[p + 1]) ELSE IsContinuation(b[p + k])

\* how many bytes the decoder takes at p, where b[p] is no continuation byte:
\* the whole sequence, or the valid start of a broken one (one U+FFFD)
UnitLen(b, p) ==
    LET good == {k \in 1..TrailCount(b[p]) : \A j \in 1..k : TrailOk(b, p, j)}
    IN  1 + Cardinality(good)

\* the code point decoded at p: the character of a complete sequence, U+FFFD
\* for a broken one or for a byte that starts none
UnitValue(b, p) ==
    LET c == b[p]
        n == TrailCount(c)
    IN  IF c < 128 THEN c
        ELSE IF n = 0 \/ UnitLen(b, p) # n + 1 THEN Replacement
        ELSE IF n = 1 THEN (c - 192) * 64 + (b[p + 1] - 128)
        ELSE IF n = 2 THEN (c - 224) * 4096 + (b[p + 1] - 128) * 64 + (b[p + 2] - 128)
        ELSE (c - 240) * 262144 + (b[p + 1] - 128) * 4096
             + (b[p + 2] - 128) * 64 + (b[p + 3] - 128)

\* the continuation byte at i belongs to the sequence of the nearest byte
\* before it that is no continuation byte
IsConsumed(b, i) ==
    \E p \in (IF i > 3 THEN i - 3 ELSE 1)..(i - 1) :
        /\ ~IsContinuation(b[p])
        /\ \A q \in (p + 1)..(i - 1) : IsContinuation(b[q])
        /\ i < p + UnitLen(b, p)

\* raw.decode('utf-8', errors='replace'), byte by byte: -2 for a byte consumed
\* by the sequence before it; a broken sequence gives one U+FFFD for its valid
\* start, a byte that starts no sequence gives U+FFFD
Utf8Marked(b) ==
    [i \in 1..Len(b) |->
        IF IsContinuation(b[i])
        THEN IF IsConsumed(b, i) THEN -2 ELSE Replacement
        ELSE UnitValue(b, i)]

Utf8Replace(b) == SelectSeq(Utf8Marked(b), IsNotConsumed)

\* the first encoding of the list, 'utf-8-sig': a leading EF BB BF is dropped.
\* With errors='replace' it never raises, so no later encoding is reached.
Utf8SigReplace(b) ==
    IF StartsWith(b, <<239, 187, 191>>) THEN Utf8Replace(Drop(b, 3)) ELSE Utf8Replace(b)

RepeatUnit(unit, k) == [i \in 1..(2 * k) |-> unit[((i - 1) % 2) + 1]]

DecodeInit ==
    /\ \E bom \in ByteOrderMarks, p \in UNION {[1..k -> Bytes] : k \in 0..MaxPrefixLen},
          unit \in [1..2 -> Bytes], k \in {0, RepeatCount} :
            raw = bom \o p \o RepeatUnit(unit, k)
    /\ native_order \in {"little", "big"}
    /\ text = <<>>
    /\ path_taken = None
    /\ bpc = "start"
    /\ NormIdle
    /\ DelimIdle
    /\ FallbackIdle

\* lines 21-24: classified as UTF-16 and decoded as such
DecodeUtf16 ==
    /\ bpc = "start"
    /\ looks_utf16(raw)
    /\ Utf16Decode(raw, native_order).ok
    /\ text' = StripNul(Utf16Decode(raw, native_order).text)
    /\ path_taken' = "utf16"
    /\ bpc' = "done"
    /\ UNCHANGED <<raw, native_order, nvars, dvars, fvars>>

\* lines 25-34: the UTF-16 decode raised, the encoding list is used
FallThroughNarrow ==
    /\ bpc = "start"
    /\ looks_utf16(raw)
    /\ ~Utf16Decode(raw, native_order).ok
    /\ text' = StripNul(Utf8SigReplace(raw))
    /\ path_taken' = "fallthrough"
    /\ bpc' = "done"
    /\ UNCHANGED <<raw, native_order, nvars, dvars, fvars>>

\* lines 28-34: not classified as UTF-16
DecodeNarrow ==
    /\ bpc = "start"
    /\ ~looks_utf16(raw)
    /\ text' = StripNul(Utf8SigReplace(raw))
    /\ path_taken' = "narrow"
    /\ bpc' = "done"
    /\ UNCHANGED <<raw, native_order, nvars, dvars, fvars>>

DecodeNext ==
    \/ DecodeUtf16
    \/ FallThroughNarrow
    \/ DecodeNarrow

SpecDecode == DecodeInit /\ [][DecodeNext]_vars

(***************************************************************************)
(* Fallback chain, read_csv.py:24-118                                      *)
(*                                                                         *)
(* The four parses are calls of pandas.read_csv; whether a call returns or *)
(* raises, and what it raises, is an input of the model.                   *)
(***************************************************************************)
FileMaxLines == 2       \* lines per file
FileMaxChars == 3       \* characters per file, over all its lines

FileChars == {",", ";", "\"", "U+201C", "\f"}
ErrorKinds == {"ParserError", "ValueError"}
HeadLineCount == 50
StrategyOrder == <<"plain read_csv", "quote/escape", "regex outside quotes",
                   "normalized text parse">>

\* read_csv.py:20-22: 50 calls of readline, '' once the file is exhausted
read_head(lines) ==
    [i \in 1..HeadLineCount |-> IF i <= Len(lines) THEN lines[i] \o <<"\n">> ELSE <<>>]

\* line 30: _detect_delimiter(head_lines) or ','
DelimiterGuess(head_lines) ==
    IF detect_delimiter(head_lines) = None THEN "," ELSE detect_delimiter(head_lines)

\* lines 33-34; <<>> stands for None
ModeCols(head_lines, d) ==
    LET counts == Counts(SelectSeq(head_lines, NonBlank), d)
    IN  IF counts = <<>> THEN <<>> ELSE <<Mode(counts)>>

\* lines 55-60: the dict has a pattern for each of the four delimiters
HasRegexSep(d) == d \in {",", ";", "|", "\t"}

\* lines 77-79
UnifyQuote(c) ==
    IF c \in {"U+201C", "U+201D"} THEN "\""
    ELSE IF c \in {"U+2018", "U+2019"} THEN "'"
    ELSE c

\* ln.replace('"', "''")
RECURSIVE ReplaceQuotes(_)
ReplaceQuotes(ln) ==
    IF ln = <<>> THEN <<>>
    ELSE (IF Head(ln) = "\"" THEN <<"'", "'">> ELSE <<Head(ln)>>) \o ReplaceQuotes(Tail(ln))

\* the characters str.splitlines() breaks a line after ("\r\n" is one break)
LineBreaks == {"\n", "\r", "U+000B", "\f", "U+001C", "U+001D", "U+001E",
               "U+0085", "U+2028", "U+2029"}

\* a line of text.splitlines(keepends=True) ends at position i
IsLineEnd(t, i) ==
    \/ i = Len(t)
    \/ /\ t[i] \in LineBreaks
       /\ ~(t[i] = "\r" /\ t[i + 1] = "\n")

\* lines 83-87: a line with an odd number of quotes loses its quotes
FixLine(ln) == IF CountChar(ln, "\"") % 2 = 1 THEN ReplaceQuotes(ln) ELSE ln

\* lines 81-88 over the text from position start on
RECURSIVE FixLinesFrom(_, _)
FixLinesFrom(t, start) ==
    IF start > Len(t) THEN <<>>
    ELSE LET e == CHOOSE i \in start..Len(t) :
                    IsLineEnd(t, i) /\ \A j \in start..(i - 1) : ~IsLineEnd(t, j)
         IN  FixLine(SubSeq(t, start, e)) \o FixLinesFrom(t, e + 1)

\* lines 75-88
normalize_text(t) ==
    FixLinesFrom([j \in 1..Len(t) |-> UnifyQuote(t[j])], 1)

\* lines 91-92: f.read(), every line of the file with its newline
RECURSIVE read_text(_)
read_text(lines) ==
    IF lines = <<>> THEN <<>> ELSE Head(lines) \o <<"\n">> \o read_text(Tail(lines))

\* f"...{mode_cols}"
FormatModeCols(m) == IF m = <<>> THEN "None" ELSE ToString(m[1])

\* variant: the first two errors are listed in the wrong order
ErrorMessage_Swapped(d, m, e1, e2, e3, e4) ==
    [delim |-> d,
     mode_cols |-> FormatModeCols(m),
     errors |-> << [label |-> "plain read_csv", kind |-> e2],
                   [label |-> "quote/escape", kind |-> e1],
                   [label |-> "regex outside quotes", kind |-> IF e3 # None THEN e3 ELSE "n/a"],
                   [label |-> "normalized text parse", kind |-> e4] >>]

\* lines 109-117: the message of the RuntimeError
ErrorMessage(d, m, e1, e2, e3, e4) ==
    [delim |-> d,
     mode_cols |-> FormatModeCols(m),
     errors |-> << [label |-> "plain read_csv", kind |-> e1],
                   [label |-> "quote/escape", kind |-> e2],
                   [label |-> "regex outside quotes", kind |-> IF e3 # None THEN e3 ELSE "n/a"],
                   [label |-> "normalized text parse", kind |-> e4] >>]

Attempt(k, ok, err) == [strategy |-> StrategyOrder[k], success |-> ok, error |-> err]

\* the lengths of the lines of a file
FileShapes ==
    UNION {{s \in [1..k -> 0..FileMaxChars] : SumSeq(s) <= FileMaxChars} : k \in 0..FileMaxLines}

FallbackInit ==
    /\ \E shape \in FileShapes :
          \E chars \in [1..SumSeq(shape) -> FileChars] :
              file_lines = BuildLines(shape, chars)
    /\ fdelim = None
    /\ mode_cols = <<>>
    /\ first_err = None
    /\ second_err = None
    /\ third_err = None
    /\ fixed = <<>>
    /\ attempts = <<>>
    /\ result = None
    /\ error = None
    /\ fpc = "start"
    /\ NormIdle
    /\ DelimIdle
    /\ DecodeIdle

\* lines 26-34
ReadHead ==
    /\ fpc = "start"
    /\ fdelim' = DelimiterGuess(read_head(file_lines))
    /\ mode_cols' = ModeCols(read_head(file_lines), fdelim')
    /\ fpc' = "try1"
    /\ UNCHANGED <<file_lines, first_err, second_err, third_err, fixed, attempts,
                   result, error, nvars, dvars, bvars>>

\* lines 37-39
PlainOk ==
    /\ fpc = "try1"
    /\ attempts' = Append(attempts, Attempt(1, TRUE, None))
    /\ result' = [strategy |-> StrategyOrder[1], sep |-> fdelim, parsed |-> read_text(file_lines)]
    /\ fpc' = "returned"
    /\ UNCHANGED <<file_lines, fdelim, mode_cols, first_err, second_err, third_err,
                   fixed, error, nvars, dvars, bvars>>

\* lines 40-41
PlainFail ==
    /\ fpc = "try1"
    /\ \E e \in ErrorKinds :
        /\ first_err' = e
        /\ attempts' = Append(attempts, Attempt(1, FALSE, e))
    /\ fpc' = "try2"
    /\ UNCHANGED <<file_lines, fdelim, mode_cols, second_err, third_err,
                   fixed, result, error, nvars, dvars, bvars>>

\* lines 44-49
EscapeOk ==
    /\ fpc = "try2"
    /\ attempts' = Append(attempts, Attempt(2, TRUE, None))
    /\ result' = [strategy |-> StrategyOrder[2], sep |-> fdelim, parsed |-> read_text(file_lines)]
    /\ fpc' = "returned"
    /\ UNCHANGED <<file_lines, fdelim, mode_cols, first_err, second_err, third_err,
                   fixed, error, nvars, dvars, bvars>>

\* lines 50-51
EscapeFail ==
    /\ fpc = "try2"
    /\ \E e \in ErrorKinds :
        /\ second_err' = e
        /\ attempts' = Append(attempts, Attempt(2, FALSE, e))
    /\ fpc' = "try3"
    /\ UNCHANGED <<file_lines, fdelim, mode_cols, first_err, third_err,
                   fixed, result, error, nvars, dvars, bvars>>

\* variant: the regex parse succeeds but its table is not returned
RegexOk_NoReturn ==
    /\ fpc = "try3"
    /\ HasRegexSep(fdelim)
    /\ attempts' = Append(attempts, Attempt(3, TRUE, None))
    /\ result' = [strategy |-> StrategyOrder[3], sep |-> fdelim, parsed |-> read_text(file_lines)]
    /\ fpc' = "try4"
    /\ UNCHANGED <<file_lines, fdelim, mode_cols, first_err, second_err, third_err,
                   fixed, error, nvars, dvars, bvars>>

\* lines 62-67
RegexOk ==
    /\ fpc = "try3"
    /\ HasRegexSep(fdelim)
    /\ attempts' = Append(attempts, Attempt(3, TRUE, None))
    /\ result' = [strategy |-> StrategyOrder[3], sep |-> fdelim, parsed |-> read_text(file_lines)]
    /\ fpc' = "returned"
    /\ UNCHANGED <<file_lines, fdelim, mode_cols, first_err, second_err, third_err,
                   fixed, error, nvars, dvars, bvars>>

\* lines 68-69
RegexFail ==
    /\ fpc = "try3"
    /\ HasRegexSep(fdelim)
    /\ \E e \in ErrorKinds :
        /\ third_err' = e
        /\ attempts' = Append(attempts, Attempt(3, FALSE, e))
    /\ fpc' = "try4"
    /\ UNCHANGED <<file_lines, fdelim, mode_cols, first_err, second_err,
                   fixed, result, error, nvars, dvars, bvars>>

\* lines 90-106
NormalizedOk ==
    /\ fpc = "try4"
    /\ fixed' = normalize_text(read_text(file_lines))
    /\ attempts' = Append(attempts, Attempt(4, TRUE, None))
    /\ result' = [strategy |-> StrategyOrder[4], sep |-> fdelim, parsed |-> fixed']
    /\ fpc' = "returned"
    /\ UNCHANGED <<file_lines, fdelim, mode_cols, first_err, second_err, third_err,
                   error, nvars, dvars, bvars>>

\* lines 107-118
NormalizedFail ==
    /\ fpc = "try4"
    /\ fixed' = normalize_text(read_text(file_lines))
    /\ \E e4 \in ErrorKinds :
        /\ attempts' = Append(attempts, Attempt(4, FALSE, e4))
        /\ error' = ErrorMessage(fdelim, mode_cols, first_err, second_err, third_err, e4)
    /\ fpc' = "raised"
    /\ UNCHANGED <<file_lines, fdelim, mode_cols, first_err, second_err, third_err,
                   result, nvars, dvars, bvars>>

FallbackNext ==
    \/ ReadHead
    \/ PlainOk
    \/ PlainFail
    \/ EscapeOk
    \/ EscapeFail
    \/ RegexOk
    \/ RegexFail
    \/ NormalizedOk
    \/ NormalizedFail

SpecFallback == FallbackInit /\ [][FallbackNext]_vars

(***************************************************************************)
(* Properties of width normalization                                       *)
(***************************************************************************)
\* 1-based column of the output row that receives the overflow
MergeColumn == IF target_idx < expected_cols - 1 THEN target_idx + 1 ELSE expected_cols

MinOf(a, b) == IF a < b THEN a ELSE b

\* out keeps the fields of r, position by position, outside the merge column
DerivedFrom(out, r) ==
    \A j \in 1..MinOf(Len(r), expected_cols) :
        (Len(r) <= expected_cols \/ j # MergeColumn) => out[j] = r[j]

\* C1: normalization neither drops nor adds a row: the returned table has one
\* body row per input body row, and output row i is made from input row i.
NoRowLoss ==
    /\ npc = "loop" => Len(fixed_rows) = idx - 1
    /\ npc = "done" =>
        /\ Len(df.data) = Len(rows) - 1
        /\ \A i \in 1..Len(df.data) :
              i + 1 <= Len(rows) /\ DerivedFrom(df.data[i], rows[i + 1])

NoRowLossWitness ==
    /\ npc = "done"
    /\ pass = 1
    /\ Len(df.data) = 2
    /\ \E i, j, k \in 1..2 :
          /\ RowClass(rows[i + 1], expected_cols) = "long"
          /\ RowClass(rows[j + 1], expected_cols) = "short"
          /\ rows[2] # rows[3]

\* C2: after normalization the header and every body row have exactly
\* expected_cols entries, whatever the input lengths were.
ExactWidth ==
    /\ npc \in {"loop", "done"} =>
        /\ Len(header) = expected_cols
        /\ \A i \in 1..Len(fixed_rows) : Len(fixed_rows[i]) = expected_cols
    /\ npc = "done" =>
        /\ Len(df.columns) = expected_cols
        /\ \A i \in 1..Len(df.data) : Len(df.data[i]) = expected_cols

ExactWidthWitness ==
    /\ npc = "done"
    /\ pass = 1
    /\ Len(rows[1]) > expected_cols
    /\ \E i, j \in 2..Len(rows) :
          Len(rows[i]) > expected_cols /\ Len(rows[j]) < expected_cols

\* f is one of the comma-separated parts of s
IsCommaPart(f, s) ==
    \E a \in 1..(Len(s) + 1) :
        LET b == a + Len(f) - 1
        IN  /\ b <= Len(s)
            /\ SubSeq(s, a, b) = f
            /\ (a = 1 \/ s[a - 1] = ",")
            /\ (b = Len(s) \/ s[b + 1] = ",")

\* field j of r and every field after it are empty
TrailingEmpty(r, j) == \A k \in j..Len(r) : r[k] = <<>>

PresentIn(f, out) ==
    \/ \E j \in 1..Len(out) : out[j] = f
    \/ IsCommaPart(f, out[MergeColumn])

\* C3: under overflow no field value is discarded: every field of a long
\* input row is a field of the output row or a comma-separated part of its
\* merge-target column; only trailing empty fields may be trimmed.
NothingDiscarded ==
    npc \in {"loop", "done"} =>
        \A i \in 1..Len(fixed_rows) :
            Len(body[i]) > expected_cols =>
                \A j \in 1..Len(body[i]) :
                    TrailingEmpty(body[i], j) \/ PresentIn(body[i][j], fixed_rows[i])

\* the fields of a row without its trailing empty fields
RECURSIVE TrimTrailingEmpty(_)
TrimTrailingEmpty(fields) ==
    IF fields # <<>> /\ fields[Len(fields)] = <<>>
    THEN TrimTrailingEmpty(SubSeq(fields, 1, Len(fields) - 1))
    ELSE fields

\* C4: a long row keeps its first expected_cols - 1 fields verbatim and its
\* merge-target (here the default last) column holds the comma-join of every
\* field from position expected_cols - 1 onward, each once, trailing empty
\* fields trimmed; [a,b,c,d] with expected_cols = 3 gives [a,b,"c,d"].
OverflowMerge ==
    npc \in {"loop", "done"} /\ target_idx = expected_cols - 1 =>
        \A i \in 1..Len(fixed_rows) :
            Len(body[i]) > expected_cols =>
                fixed_rows[i] =
                    Take(body[i], expected_cols - 1)
                    \o <<JoinComma(TrimTrailingEmpty(Drop(body[i], expected_cols - 1)))>>

\* C8: normalizing a table whose header and rows already have expected_cols
\* entries returns the same table with long_rows = short_rows = 0, so
\* normalizing the output of a normalization changes nothing.
Rectangular(t) == \A i \in 1..Len(t) : Len(t[i]) = expected_cols

Idempotent ==
    npc = "done" =>
        /\ Rectangular(rows) =>
              /\ df = [columns |-> rows[1], data |-> Tail(rows)]
              /\ long_rows = 0
              /\ short_rows = 0
        /\ pass = 2 => df = prev_df /\ Rectangular(rows)

IdempotentWitness ==
    /\ npc = "done"
    /\ pass = 2
    /\ Len(df.data) = 2
    /\ Len(df.data[1][MergeColumn]) > 1
    /\ df.data[2][expected_cols] = <<>>
    /\ df.columns[expected_cols] = "__placeholder_0"

\* C9: a short row is returned as its own fields, in place, followed by
\* empty fields up to expected_cols; [a] with expected_cols = 3 gives [a,"",""].
ShortRowPadding ==
    npc \in {"loop", "done"} =>
        \A i \in 1..Len(fixed_rows) :
            Len(body[i]) < expected_cols =>
                /\ Len(fixed_rows[i]) = expected_cols
                /\ \A j \in 1..expected_cols :
                      fixed_rows[i][j] = IF j <= Len(body[i]) THEN body[i][j] ELSE <<>>

ShortRowPaddingWitness ==
    /\ npc = "done"
    /\ expected_cols = 3
    /\ \E i \in 1..Len(body) :
          body[i] = << <<"a">> >> /\ df.data[i] = << <<"a">>, <<>>, <<>> >>

(***************************************************************************)
(* Properties of delimiter inference                                       *)
(***************************************************************************)
ObservedLines == SelectSeq(text_lines, NonBlank)

\* the modal count of d and the squared deviations around it
ModalCount(d) == Mode(Counts(ObservedLines, d))

Deviation(d) == SumSqDev(Counts(ObservedLines, d), ModalCount(d))

\* the variance of d as the program holds it, a float
Variance(d) ==
    TrueDiv(Deviation(d), IF Len(ObservedLines) > 1 THEN Len(ObservedLines) ELSE 1)

\* d does not beat the candidate with modal count m and variance v
NotBetter(d, m, v) ==
    LET md == ModalCount(d)
    IN  md < m \/ (md = m /\ ~FloatLess(Variance(d), v))

\* C6: over {comma, semicolon, pipe, tab} the delimiter returned maximizes
\* (modalCount, -variance) lexicographically, the variance being the float
\* the division yields.  An observation of a candidate is one per-line count
\* of it, so a candidate has none exactly when the sample has no non-blank
\* line; then no candidate is scored and comma is returned.  A delimiter is
\* always returned.
InferMaximizes ==
    dpc = "done" =>
        /\ delim \in {",", ";", "|", "\t"}
        /\ ObservedLines = <<>> => delim = ","
        /\ ObservedLines # <<>> =>
              LET m == ModalCount(delim)
                  v == Variance(delim)
              IN  \A d \in {",", ";", "|", "\t"} : NotBetter(d, m, v)

InferMaximizesWitness ==
    /\ dpc = "done"
    /\ delim = ";"
    /\ ModalCount(",") = ModalCount(";")
    /\ FloatLess(Variance(";"), Variance(","))

(***************************************************************************)
(* Properties of the byte decoder                                          *)
(***************************************************************************)
\* C7: the decoded text holds no NUL character, whichever path produced it:
\* the UTF-16 decode, the encoding list after a failed UTF-16 decode, or the
\* encoding list directly.
NoNulInText ==
    bpc = "done" =>
        /\ path_taken \in {"utf16", "fallthrough", "narrow"}
        /\ \A i \in 1..Len(text) : text[i] # 0

NoNulInTextWitness ==
    /\ bpc = "done"
    /\ path_taken = "utf16"
    /\ StartsWith(raw, <<255, 254>>)
    /\ \E i \in 2..(Len(raw) \div 2) : raw[2 * i - 1] = 0 /\ raw[2 * i] = 0
    /\ InSeq(65, text)

(***************************************************************************)
(* Properties of the fallback chain                                        *)
(***************************************************************************)
HeadSample == SelectSeq(file_lines, NonBlank)

\* C5: when all four parses fail no table is returned and one error is
\* raised that lists exactly the four attempts in strategy order (plain,
\* quote/escape, regex outside quotes, normalized text), each with its own
\* failure, with the chosen delimiter and the modal delimiter count of the head.
TotalFailureAudit ==
    fpc = "raised" =>
        /\ result = None
        /\ Len(error.errors) = 4
        /\ \A k \in 1..4 :
              /\ error.errors[k].label = StrategyOrder[k]
              /\ ~attempts[k].success
              /\ error.errors[k].kind = attempts[k].error
        /\ error.delim = fdelim
        /\ error.delim = detect_delim_from_text(file_lines)
        /\ error.mode_cols = IF HeadSample = <<>> THEN "None"
                             ELSE ToString(Mode(Counts(HeadSample, fdelim)))

TotalFailureAuditWitness ==
    /\ fpc = "raised"
    /\ error.errors[1].kind # error.errors[2].kind
    /\ error.errors[3].kind # error.errors[4].kind
    /\ error.delim = ";"
    /\ error.mode_cols = "1"

\* C10: the parses are attempted in the fixed order plain, quote/escape,
\* regex, normalized text; a parse is attempted only after every earlier one
\* failed; the first success ends the chain and its table is the one
\* returned; a run ends within four attempts, with a table or with the error.
ChainOrder ==
    /\ Len(attempts) <= 4
    /\ \A k \in 1..Len(attempts) :
          /\ attempts[k].strategy = StrategyOrder[k]
          /\ k < Len(attempts) => ~attempts[k].success
    /\ fpc = "returned" =>
          /\ attempts # <<>>
          /\ attempts[Len(attempts)].success
          /\ result.strategy = attempts[Len(attempts)].strategy
    /\ fpc = "raised" =>
          /\ Len(attempts) = 4
          /\ ~attempts[4].success
    /\ fpc \in {"try1", "try2", "try3", "try4"} =>
          /\ attempts = <<>> \/ ~attempts[Len(attempts)].success
          /\ Len(attempts) < 4
          /\ fpc = <<"try1", "try2", "try3", "try4">>[Len(attempts) + 1]

ChainOrderWitness ==
    /\ fpc = "returned"
    /\ Len(attempts) = 3
    /\ result.strategy = "regex outside quotes"

====
